---- MODULE Spec2Model ----
(***************************************************************************)
(* A model of the slab allocator of src/src/lib.rs.                        *)
(*                                                                         *)
(*   Slab (a Page)           one 4096-byte block and a u64 free bitmap     *)
(*   SlabManager (a Pool)    a Vec of Slabs and a cached free count        *)
(*   SlabAllocator (Router)  six SlabManagers, each behind a spin::Mutex,  *)
(*                           and the backing allocator `inner`             *)
(*                                                                         *)
(* A u64 bitmap is modelled as the set of the indices of its set bits, so  *)
(* that all 64 bits are kept without a 64-bit integer.  The backing        *)
(* allocator is the environment: it owns NumFrames blocks of 4096 bytes,   *)
(* may refuse any request, and never hands out a block that is in use.     *)
(***************************************************************************)
EXTENDS Integers, Sequences, FiniteSets, TLC

\* ------------------------------------------------------------- bounds
NumFrames == 3
MaxLive == 3
MaxIssues == 5
MaxReturns == 1

\* ---------------------------------------------------- program constants
PageSize == 4096
BitmapBits == 64

Threads == {1, 2}
NoThread == 0
Frames == 1..NumFrames

\* The arms of the match in allocate/deallocate.
Classes == {64, 128, 256, 512, 1024, 2048}
\* The `_` arm: the request goes to self.inner.
Inner == 0
\* Err(AllocError); a NonNull block never starts at 0.
AllocError == 0

\* Layout::new::<[u8; N]>() of tests.rs: size N, alignment 1.
Bytes(n) == [size |-> n, align |-> 1]

Lay(size, align) == [size |-> size, align |-> align]

\* The layouts the callers of one run request.  Each run uses two: classes
\* side by side as tests.rs requests them, a size that next_power_of_two rounds
\* up into a class, a class reached through the alignment, and layouts whose
\* allocation_size is below 64 or above 2048.
Workloads ==
    { {Bytes(64), Bytes(128)}, {Bytes(256), Bytes(512)},
      {Bytes(64), Lay(40, 8)}, {Bytes(128), Lay(16, 128)},
      {Bytes(1024), Lay(24, 8)}, {Bytes(2048), Bytes(4096)},
      {Lay(64, 4096), Bytes(4096)} }

Layouts == UNION Workloads

VARIABLES
    workload, \* the layouts this run's callers request
    pools,    \* pools[S]: the SlabManager<S> behind slab_S
    lock,     \* lock[S]: the thread holding slab_S's Mutex, or NoThread
    used,     \* the frames the backing allocator has handed out
    issued,   \* the blocks callers own: returned by allocate, not yet passed to deallocate
    pc,       \* pc[t]: where thread t is inside allocate/deallocate
    op,       \* op[t]: the call thread t is executing
    fate,     \* "run", or how the process or the allocator ended
    freed,    \* the blocks Slab::drop has passed to the backing allocator, in order
    test      \* the progress of a test of tests.rs

vars == <<test, workload, pools, lock, used, issued, pc, op, fate, freed>>

\* ------------------------------------------------------------ arithmetic
Max(a, b) == IF a >= b THEN a ELSE b

MinOf(s) == CHOOSE x \in s : \A y \in s : x <= y

RECURSIVE Pow2(_)
Pow2(n) == IF n = 0 THEN 1 ELSE 2 * Pow2(n - 1)

RECURSIVE NextPow2From(_, _)
NextPow2From(n, p) == IF p >= n THEN p ELSE NextPow2From(n, 2 * p)

\* usize::next_power_of_two: the smallest power of two >= n (1 for n = 0).
NextPowerOfTwo(n) == NextPow2From(n, 1)

RECURSIVE TrailingZerosOf(_)
\* usize::trailing_zeros of a non-zero n.
TrailingZerosOf(n) == IF n % 2 = 1 THEN 0 ELSE 1 + TrailingZerosOf(n \div 2)

\* n >> k
Shr(n, k) == n \div Pow2(k)

\* ------------------------------------------------------------ u64 bitmaps
\* 1u64.unbounded_shl(n): 1 << n, and 0 once n reaches the width.
UnboundedShl1(n) == IF n >= BitmapBits THEN {} ELSE {n}

\* b.wrapping_sub(1): 0 wraps to all ones; otherwise the lowest set bit is
\* cleared and every bit below it is set.
WrappingSub1(b) ==
    IF b = {} THEN 0..(BitmapBits - 1)
    ELSE LET k == MinOf(b) IN (b \ {k}) \cup 0..(k - 1)

\* u64::count_ones
CountOnes(b) == Cardinality(b)

\* u64::trailing_zeros
TrailingZeros(b) == IF b = {} THEN BitmapBits ELSE MinOf(b)

\* ------------------------------------------------------------------ Slab
ObjectsPerPage(S) == PageSize \div S

\* Slab::new_in with bitmap: u64::MAX whatever the object size.
SlabNewInAllBits(S, memory) == [bitmap |-> 0..63, memory |-> memory]

\* Slab::new_in with a plain `1 << objects_per_page` that wraps to 1 << 0 at
\* the width, so that the bitmap of class 64 is 1 - 1 = 0.
SlabNewInWrappingShl(S, memory) ==
    [bitmap |-> IF PageSize \div S >= BitmapBits THEN {}
                ELSE 0..(PageSize \div S - 1),
     memory |-> memory]

\* Slab::new_in, given the block the backing allocator supplied.
SlabNewIn(S, memory) ==
    [bitmap |-> WrappingSub1(UnboundedShl1(ObjectsPerPage(S))), memory |-> memory]

\* Slab::memory_range, as the set test `contains`.
SlabContains(slab, address) ==
    slab.memory <= address /\ address < slab.memory + PageSize

SlabRemainingObjectCount(slab) == CountOnes(slab.bitmap)

SlabIsEmpty(slab) == SlabRemainingObjectCount(slab) = 0

\* Slab::next_object without `self.bitmap &= !(1 << object_index)`.
SlabNextObjectKeepsBit(S, slab) ==
    IF CountOnes(slab.bitmap) = 0
    THEN [some |-> FALSE, slab |-> slab, addr |-> 0, len |-> 0]
    ELSE LET object_index == TrailingZeros(slab.bitmap)
         IN [some |-> TRUE, slab |-> slab,
             addr |-> slab.memory + object_index * S, len |-> S]

\* Slab::next_object with byte_index_start = object_index, the index not
\* scaled by OBJECT_SIZE.
SlabNextObjectUnscaled(S, slab) ==
    IF CountOnes(slab.bitmap) = 0
    THEN [some |-> FALSE, slab |-> slab, addr |-> 0, len |-> 0]
    ELSE LET object_index == TrailingZeros(slab.bitmap)
         IN [some |-> TRUE,
             slab |-> [slab EXCEPT !.bitmap = @ \ {object_index}],
             addr |-> slab.memory + object_index, len |-> S]

\* Slab::next_object with byte_index_end one byte short.
SlabNextObjectShort(S, slab) ==
    IF CountOnes(slab.bitmap) = 0
    THEN [some |-> FALSE, slab |-> slab, addr |-> 0, len |-> 0]
    ELSE LET object_index == TrailingZeros(slab.bitmap)
         IN [some |-> TRUE,
             slab |-> [slab EXCEPT !.bitmap = @ \ {object_index}],
             addr |-> slab.memory + object_index * S, len |-> S - 1]

\* Slab::next_object taking the highest set bit (leading, not trailing, zeros).
SlabNextObjectHighest(S, slab) ==
    IF CountOnes(slab.bitmap) = 0
    THEN [some |-> FALSE, slab |-> slab, addr |-> 0, len |-> 0]
    ELSE LET object_index == CHOOSE x \in slab.bitmap : \A y \in slab.bitmap : x >= y
         IN [some |-> TRUE,
             slab |-> [slab EXCEPT !.bitmap = @ \ {object_index}],
             addr |-> slab.memory + object_index * S, len |-> S]

\* Slab::next_object: None, or the slab with the lowest set bit cleared and
\* the subslice byte_index_start..byte_index_end of its memory.
SlabNextObject(S, slab) ==
    IF SlabIsEmpty(slab)
    THEN [some |-> FALSE, slab |-> slab, addr |-> 0, len |-> 0]
    ELSE LET object_index == TrailingZeros(slab.bitmap)
             byte_index_start == object_index * S
             byte_index_end == byte_index_start + S
         IN [some |-> TRUE,
             slab |-> [slab EXCEPT !.bitmap = @ \ {object_index}],
             addr |-> slab.memory + byte_index_start,
             len |-> byte_index_end - byte_index_start]

\* Slab::return_object with the byte offset used as the index, the shift by
\* OBJECT_SIZE.trailing_zeros() left out.
SlabReturnObjectNoShift(S, slab, object_ptr) ==
    [slab EXCEPT !.bitmap = @ \cup {object_ptr - slab.memory}]

\* Slab::return_object
SlabReturnObject(S, slab, object_ptr) ==
    LET byte_offset == object_ptr - slab.memory
        object_index == Shr(byte_offset, TrailingZerosOf(S))
    IN [slab EXCEPT !.bitmap = @ \cup {object_index}]

\* ----------------------------------------------------------- SlabManager
ManagerNewIn == [slabs |-> <<>>, remaining_object_count |-> 0]

ManagerRemainingObjectCount(m) == m.remaining_object_count

\* is_empty that already answers true with one object left.
ManagerIsEmptyOffByOne(m) == m.remaining_object_count <= 1

ManagerIsEmpty(m) == ManagerRemainingObjectCount(m) = 0

\* find_map from the back of the Vec (iter_mut().rev()): the last slab with
\* a free object.
FindMapIndexLast(slabs) ==
    LET hits == {i \in 1..Len(slabs) : slabs[i].bitmap # {}}
    IN IF hits = {} THEN 0 ELSE CHOOSE x \in hits : \A y \in hits : x >= y

\* self.slabs.iter_mut().find_map(Slab::next_object): the first slab, in Vec
\* order, whose next_object is Some; 0 when there is none.
FindMapIndex(slabs) ==
    LET hits == {i \in 1..Len(slabs) : ~SlabIsEmpty(slabs[i])}
    IN IF hits = {} THEN 0 ELSE MinOf(hits)

\* SlabManager::next_object that adds the whole page to the count on the
\* is_empty branch, the object just taken included.
ManagerNextObjectWholePage(S, m, memory) ==
    IF m.remaining_object_count = 0
    THEN IF memory = AllocError
         THEN [status |-> "err", mgr |-> m, addr |-> 0, len |-> 0]
         ELSE [status |-> "ok",
               mgr |-> [slabs |-> Append(m.slabs,
                                         [bitmap |-> 1..(PageSize \div S - 1),
                                          memory |-> memory]),
                        remaining_object_count |->
                            m.remaining_object_count + PageSize \div S],
               addr |-> memory, len |-> S]
    ELSE LET hits == {i \in 1..Len(m.slabs) : m.slabs[i].bitmap # {}} IN
         IF hits = {}
         THEN [status |-> "panic", mgr |-> m, addr |-> 0, len |-> 0]
         ELSE LET i == CHOOSE x \in hits : \A y \in hits : x <= y
                  k == CHOOSE x \in m.slabs[i].bitmap : \A y \in m.slabs[i].bitmap : x <= y
              IN [status |-> "ok",
                  mgr |-> [slabs |-> [m.slabs EXCEPT ![i].bitmap = @ \ {k}],
                           remaining_object_count |-> m.remaining_object_count - 1],
                  addr |-> m.slabs[i].memory + k * S, len |-> S]

\* SlabManager::next_object that adds the new page's objects to the count
\* before Slab::new_in has answered, so also when it answers AllocError.
ManagerNextObjectCountsFirst(S, m, memory) ==
    IF m.remaining_object_count = 0
    THEN IF memory = AllocError
         THEN [status |-> "err",
               mgr |-> [m EXCEPT !.remaining_object_count = @ + PageSize \div S - 1],
               addr |-> 0, len |-> 0]
         ELSE [status |-> "ok",
               mgr |-> [slabs |-> Append(m.slabs,
                                         [bitmap |-> 1..(PageSize \div S - 1),
                                          memory |-> memory]),
                        remaining_object_count |->
                            m.remaining_object_count + PageSize \div S - 1],
               addr |-> memory, len |-> S]
    ELSE LET hits == {i \in 1..Len(m.slabs) : m.slabs[i].bitmap # {}} IN
         IF hits = {}
         THEN [status |-> "panic", mgr |-> m, addr |-> 0, len |-> 0]
         ELSE LET i == CHOOSE x \in hits : \A y \in hits : x <= y
                  k == CHOOSE x \in m.slabs[i].bitmap : \A y \in m.slabs[i].bitmap : x <= y
              IN [status |-> "ok",
                  mgr |-> [slabs |-> [m.slabs EXCEPT ![i].bitmap = @ \ {k}],
                           remaining_object_count |-> m.remaining_object_count - 1],
                  addr |-> m.slabs[i].memory + k * S, len |-> S]

\* SlabManager::next_object without `self.remaining_object_count -= 1` on
\* the find_map branch.
ManagerNextObjectNoDecrement(S, m, memory) ==
    IF m.remaining_object_count = 0
    THEN IF memory = AllocError
         THEN [status |-> "err", mgr |-> m, addr |-> 0, len |-> 0]
         ELSE [status |-> "ok",
               mgr |-> [slabs |-> Append(m.slabs,
                                         [bitmap |-> 1..(PageSize \div S - 1),
                                          memory |-> memory]),
                        remaining_object_count |->
                            m.remaining_object_count + PageSize \div S - 1],
               addr |-> memory, len |-> S]
    ELSE LET hits == {i \in 1..Len(m.slabs) : m.slabs[i].bitmap # {}} IN
         IF hits = {}
         THEN [status |-> "panic", mgr |-> m, addr |-> 0, len |-> 0]
         ELSE LET i == CHOOSE x \in hits : \A y \in hits : x <= y
                  k == CHOOSE x \in m.slabs[i].bitmap : \A y \in m.slabs[i].bitmap : x <= y
              IN [status |-> "ok",
                  mgr |-> [slabs |-> [m.slabs EXCEPT ![i].bitmap = @ \ {k}],
                           remaining_object_count |-> m.remaining_object_count],
                  addr |-> m.slabs[i].memory + k * S, len |-> S]

\* SlabManager::next_object.  `memory` is what self.inner returned to
\* Slab::new_in (AllocError or a block's address); it is read only on the
\* is_empty branch.  status: "ok", "err" (AllocError), "panic" (unwrap on None).
ManagerNextObject(S, m, memory) ==
    IF ManagerIsEmpty(m)
    THEN IF memory = AllocError
         THEN [status |-> "err", mgr |-> m, addr |-> 0, len |-> 0]
         ELSE LET object == SlabNextObject(S, SlabNewIn(S, memory))
                  new_slab == object.slab
              IN [status |-> "ok",
                  mgr |-> [slabs |-> Append(m.slabs, new_slab),
                           remaining_object_count |->
                               m.remaining_object_count
                                   + SlabRemainingObjectCount(new_slab)],
                  addr |-> object.addr, len |-> object.len]
    ELSE LET i == FindMapIndex(m.slabs) IN
         IF i = 0
         THEN [status |-> "panic", mgr |-> m, addr |-> 0, len |-> 0]
         ELSE LET object == SlabNextObject(S, m.slabs[i])
              IN [status |-> "ok",
                  mgr |-> [slabs |-> [m.slabs EXCEPT ![i] = object.slab],
                           remaining_object_count |-> m.remaining_object_count - 1],
                  addr |-> object.addr, len |-> object.len]

\* self.slabs.iter_mut().find(|slab| slab.memory_range().contains(..)); 0 for None.
FindSlabIndex(slabs, address) ==
    LET hits == {i \in 1..Len(slabs) : SlabContains(slabs[i], address)}
    IN IF hits = {} THEN 0 ELSE MinOf(hits)

\* SlabManager::return_object without `self.remaining_object_count += 1`.
ManagerReturnObjectNoCount(S, m, object_ptr) ==
    LET hits == {i \in 1..Len(m.slabs) :
                    /\ m.slabs[i].memory <= object_ptr
                    /\ object_ptr < m.slabs[i].memory + PageSize}
    IN IF hits = {}
       THEN [found |-> FALSE, mgr |-> m]
       ELSE LET i == CHOOSE x \in hits : \A y \in hits : x <= y IN
            [found |-> TRUE,
             mgr |-> [m EXCEPT !.slabs[i].bitmap =
                                  @ \cup {(object_ptr - m.slabs[i].memory) \div S}]]

\* SlabManager::return_object.  unwrap_unchecked on None is undefined
\* behaviour: found |-> FALSE reports it and the caller ends the run.
ManagerReturnObject(S, m, object_ptr) ==
    LET i == FindSlabIndex(m.slabs, object_ptr) IN
    IF i = 0
    THEN [found |-> FALSE, mgr |-> m]
    ELSE [found |-> TRUE,
          mgr |-> [slabs |-> [m.slabs EXCEPT ![i] = SlabReturnObject(S, @, object_ptr)],
                   remaining_object_count |-> m.remaining_object_count + 1]]

\* ---------------------------------------------------------- SlabAllocator
\* max(layout.size().next_power_of_two(), layout.align())
AllocationSize(size, align) == Max(NextPowerOfTwo(size), align)

\* allocate with the 64 and 128 arms locking each other's slab.
AllocateArmSwapped(allocation_size) ==
    IF allocation_size = 64 THEN 128
    ELSE IF allocation_size = 128 THEN 64
    ELSE IF allocation_size \in Classes THEN allocation_size ELSE Inner

\* The arm `match allocation_size` takes in allocate.
AllocateArm(allocation_size) ==
    IF allocation_size \in Classes THEN allocation_size ELSE Inner

\* The arm `match allocation_size` takes in deallocate.
DeallocateArm(allocation_size) ==
    IF allocation_size \in Classes THEN allocation_size ELSE Inner

\* allocate handing the rounded allocation_size to self.inner, not the layout.
InnerAllocateLayoutRounded(size, align) ==
    [size |-> Max(NextPowerOfTwo(size), align), align |-> align]

\* The layout allocate hands to self.inner.allocate in the `_` arm.
InnerAllocateLayout(size, align) == [size |-> size, align |-> align]

\* The layout deallocate hands to self.inner.deallocate in the `_` arm.
InnerDeallocateLayout(size, align) == [size |-> size, align |-> align]

\* The layout Slab::new_in asks the backing allocator for.
SlabLayout == [size |-> PageSize, align |-> PageSize]

\* ------------------------------------------------------ backing allocator
FrameBase(f) == f * PageSize

FrameOf(address) == address \div PageSize

\* What the backing allocator may answer to allocate(layout) besides
\* AllocError.  It is a first-fit allocator over its frames: the block starts
\* at the base of the lowest frame not handed out (so at a multiple of 4096,
\* hence of every alignment up to 4096) and is exactly as long as asked, as
\* the Global allocator of tests.rs answers.
BackingBlocks(layout) ==
    IF Frames \ used = {} \/ layout.size > PageSize \/ layout.align > PageSize
    THEN {}
    ELSE {[addr |-> FrameBase(MinOf(Frames \ used)), len |-> layout.size]}

\* ------------------------------------------------------------------ state
NullOp ==
    [kind |-> "none", size |-> 0, align |-> 0, arm |-> Inner, addr |-> 0, len |-> 0,
     status |-> "none", asks |-> 0, asked |-> [size |-> 0, align |-> 0]]

\* The blocks that exist outside `issued`: returned by next_object or inner
\* but not yet out of allocate, or passed to deallocate and not yet given back.
InFlight ==
    { [addr |-> op[t].addr, len |-> op[t].len, size |-> op[t].size, align |-> op[t].align] :
        t \in { u \in Threads :
                  \/ op[u].kind = "alloc" /\ op[u].status = "ok"
                  \/ op[u].kind = "dealloc" /\ op[u].status = "pending" } }

Live == issued \cup InFlight

\* No test is running: the callers are the threads.
NoTest == [layout |-> Lay(0, 1), allocations |-> <<>>, released |-> 0, seen |-> <<>>]

Calls == {t \in Threads : op[t].kind = "alloc"}

Init ==
    /\ workload \in Workloads
    /\ test = NoTest
    /\ pools = [S \in Classes |-> ManagerNewIn]
    /\ lock = [S \in Classes |-> NoThread]
    /\ used = {}
    /\ issued = {}
    /\ pc = [t \in Threads |-> "idle"]
    /\ op = [t \in Threads |-> NullOp]
    /\ fate = "run"
    /\ freed = <<>>

Op(kind, layout, arm) ==
    [NullOp EXCEPT !.kind = kind, !.size = layout.size, !.align = layout.align,
                   !.arm = arm, !.status = "pending"]

Block(o) == [addr |-> o.addr, len |-> o.len, size |-> o.size, align |-> o.align]

\* allocate, up to the lock() of a class arm: the thread now spins on slab_S.
Allocate(t, layout) ==
    /\ fate = "run"
    /\ pc[t] = "idle"
    /\ Cardinality(issued) + Cardinality(Calls) < MaxLive
    /\ LET arm == AllocateArm(AllocationSize(layout.size, layout.align)) IN
       /\ arm # Inner
       /\ op' = [op EXCEPT ![t] = Op("alloc", layout, arm)]
    /\ pc' = [pc EXCEPT ![t] = "lock"]
    /\ UNCHANGED <<freed, test, workload, pools, lock, used, issued, fate>>

\* allocate through the `_` arm: self.inner.allocate(layout), no lock taken.
AllocateInner(t, layout) ==
    /\ fate = "run"
    /\ pc[t] = "idle"
    /\ Cardinality(issued) + Cardinality(Calls) < MaxLive
    /\ LET arm == AllocateArm(AllocationSize(layout.size, layout.align))
           asked == InnerAllocateLayout(layout.size, layout.align)
       IN /\ arm = Inner
          /\ \E b \in BackingBlocks(asked) \cup {[addr |-> AllocError, len |-> 0]} :
               /\ used' = IF b.addr = AllocError THEN used
                          ELSE used \cup {FrameOf(b.addr)}
               /\ op' = [op EXCEPT ![t] =
                           [Op("alloc", layout, arm) EXCEPT
                               !.status = IF b.addr = AllocError THEN "err" ELSE "ok",
                               !.addr = b.addr, !.len = b.len,
                               !.asks = 1, !.asked = asked]]
    /\ pc' = [pc EXCEPT ![t] = "done"]
    /\ UNCHANGED <<freed, test, workload, pools, lock, issued, fate>>

\* deallocate, up to the lock() of a class arm.  The caller keeps the contract
\* of Allocator::deallocate: the block is one it owns, with the layout it
\* asked for, and from here on it is no longer the caller's.
Deallocate(t, o) ==
    /\ fate = "run"
    /\ pc[t] = "idle"
    /\ o \in issued
    /\ LET arm == DeallocateArm(AllocationSize(o.size, o.align)) IN
       /\ arm # Inner
       /\ op' = [op EXCEPT ![t] = [Op("dealloc", o, arm) EXCEPT
                                       !.addr = o.addr, !.len = o.len]]
    /\ pc' = [pc EXCEPT ![t] = "lock"]
    /\ issued' = issued \ {o}
    /\ UNCHANGED <<freed, test, workload, pools, lock, used, fate>>

\* deallocate through the `_` arm: self.inner.deallocate(ptr, layout).
DeallocateInner(t, o) ==
    /\ fate = "run"
    /\ pc[t] = "idle"
    /\ o \in issued
    /\ LET arm == DeallocateArm(AllocationSize(o.size, o.align)) IN
       /\ arm = Inner
       /\ op' = [op EXCEPT ![t] = [Op("dealloc", o, arm) EXCEPT
                                       !.addr = o.addr, !.len = o.len,
                                       !.status = "ok", !.asks = 1,
                                       !.asked = InnerDeallocateLayout(o.size, o.align)]]
    /\ used' = used \ {FrameOf(o.addr)}
    /\ pc' = [pc EXCEPT ![t] = "done"]
    /\ issued' = issued \ {o}
    /\ UNCHANGED <<freed, test, workload, pools, lock, fate>>

\* A lock() that returns a guard whether or not the Mutex is held.
MutexLockAlways(S, t) == TRUE

\* Whether self.slab_S.lock() returns for thread t: spin::Mutex hands the
\* guard to a spinning thread only while nobody holds it.
MutexLock(S, t) == lock[S] = NoThread

\* self.slab_S.lock() and slab_S.next_object() under the guard.  On the
\* is_empty branch the backing allocator is asked for a block, and
\* self.slabs.push may have to grow the Vec: a refused growth ends the process
\* (handle_alloc_error).
NextObject(t) ==
    /\ fate = "run"
    /\ pc[t] = "lock"
    /\ op[t].kind = "alloc"
    /\ MutexLock(op[t].arm, t)
    /\ LET S == op[t].arm
           m == pools[S]
       IN IF ManagerIsEmpty(m)
          THEN \E b \in BackingBlocks(SlabLayout) \cup {[addr |-> AllocError, len |-> 0]} :
               \E push_ok \in BOOLEAN :
                 LET r == ManagerNextObject(S, m, b.addr) IN
                 IF r.status = "ok" /\ ~push_ok
                 THEN /\ fate' = "abort"
                      /\ used' = used \cup {FrameOf(b.addr)}
                      /\ UNCHANGED <<pools, op, pc, lock>>
                 ELSE /\ (r.status = "err") => push_ok
                      /\ pools' = [pools EXCEPT ![S] = r.mgr]
                      /\ used' = IF r.status = "ok" THEN used \cup {FrameOf(b.addr)}
                                 ELSE used
                      /\ op' = [op EXCEPT ![t].status = r.status, ![t].addr = r.addr,
                                          ![t].len = r.len, ![t].asks = 1,
                                          ![t].asked = SlabLayout]
                      /\ pc' = [pc EXCEPT ![t] = "done"]
                      /\ lock' = [lock EXCEPT ![S] = t]
                      /\ UNCHANGED fate
          ELSE LET r == ManagerNextObject(S, m, AllocError) IN
               IF r.status = "panic"
               THEN /\ fate' = "panic"
                    /\ UNCHANGED <<pools, used, op, pc, lock>>
               ELSE /\ pools' = [pools EXCEPT ![S] = r.mgr]
                    /\ op' = [op EXCEPT ![t].status = r.status, ![t].addr = r.addr,
                                        ![t].len = r.len]
                    /\ pc' = [pc EXCEPT ![t] = "done"]
                    /\ lock' = [lock EXCEPT ![S] = t]
                    /\ UNCHANGED <<used, fate>>
    /\ UNCHANGED <<freed, test, workload, issued>>

\* self.slab_S.lock() and slab_S.return_object(ptr) under the guard.
ReturnObject(t) ==
    /\ fate = "run"
    /\ pc[t] = "lock"
    /\ op[t].kind = "dealloc"
    /\ MutexLock(op[t].arm, t)
    /\ LET S == op[t].arm
           r == ManagerReturnObject(S, pools[S], op[t].addr)
       IN IF r.found
          THEN /\ pools' = [pools EXCEPT ![S] = r.mgr]
               /\ op' = [op EXCEPT ![t].status = "ok"]
               /\ pc' = [pc EXCEPT ![t] = "done"]
               /\ lock' = [lock EXCEPT ![S] = t]
               /\ UNCHANGED fate
          ELSE /\ fate' = "ub"
               /\ UNCHANGED <<pools, op, pc, lock>>
    /\ UNCHANGED <<freed, test, workload, used, issued>>

\* The end of a match arm that drops the MutexGuard only when next_object
\* did not fail: the error path returns with the guard leaked.
ReturnLeaksGuardOnError(t) ==
    /\ fate = "run"
    /\ pc[t] = "done"
    /\ lock' = IF op[t].arm = Inner \/ op[t].status = "err" THEN lock
               ELSE [lock EXCEPT ![op[t].arm] = NoThread]
    /\ issued' = IF op[t].kind = "alloc" /\ op[t].status = "ok"
                 THEN issued \cup {[addr |-> op[t].addr, len |-> op[t].len,
                                    size |-> op[t].size, align |-> op[t].align]}
                 ELSE issued
    /\ op' = [op EXCEPT ![t] = NullOp]
    /\ pc' = [pc EXCEPT ![t] = "idle"]
    /\ UNCHANGED <<freed, test, workload, pools, used, fate>>

\* The end of a match arm whose MutexGuard is leaked, not dropped.
ReturnKeepsGuard(t) ==
    /\ fate = "run"
    /\ pc[t] = "done"
    /\ issued' = IF op[t].kind = "alloc" /\ op[t].status = "ok"
                 THEN issued \cup {[addr |-> op[t].addr, len |-> op[t].len,
                                    size |-> op[t].size, align |-> op[t].align]}
                 ELSE issued
    /\ op' = [op EXCEPT ![t] = NullOp]
    /\ pc' = [pc EXCEPT ![t] = "idle"]
    /\ UNCHANGED <<freed, test, workload, pools, lock, used, fate>>

\* The end of the match arm: the MutexGuard (if any) is dropped and the call
\* returns; a block allocate returns is the caller's from here on.
Return(t) ==
    /\ fate = "run"
    /\ pc[t] = "done"
    /\ lock' = IF op[t].arm = Inner THEN lock ELSE [lock EXCEPT ![op[t].arm] = NoThread]
    /\ issued' = IF op[t].kind = "alloc" /\ op[t].status = "ok"
                 THEN issued \cup {Block(op[t])}
                 ELSE issued
    /\ op' = [op EXCEPT ![t] = NullOp]
    /\ pc' = [pc EXCEPT ![t] = "idle"]
    /\ UNCHANGED <<freed, test, workload, pools, used, fate>>

Next ==
    \/ \E t \in Threads, layout \in workload : Allocate(t, layout)
    \/ \E t \in Threads, layout \in workload : AllocateInner(t, layout)
    \/ \E t \in Threads, o \in issued : Deallocate(t, o)
    \/ \E t \in Threads, o \in issued : DeallocateInner(t, o)
    \/ \E t \in Threads : NextObject(t)
    \/ \E t \in Threads : ReturnObject(t)
    \/ \E t \in Threads : Return(t)

Spec == Init /\ [][Next]_vars

\* ------------------------------------------------------------------ drop
\* Slab::drop without the deallocate call: the block is leaked.
SlabDropLeaks(slab) == <<>>

\* Drop for Slab: the deallocate calls it makes on self.inner, each with
\* Slab::LAYOUT, as the sequence of the blocks' addresses.
SlabDrop(slab) == <<slab.memory>>

RECURSIVE VecDrop(_)
\* The drop of a Vec<Slab>: the elements are dropped in order.
VecDrop(slabs) ==
    IF slabs = <<>> THEN <<>> ELSE SlabDrop(Head(slabs)) \o VecDrop(Tail(slabs))

\* The drop of a SlabAllocator: its fields are dropped in declaration order,
\* each Mutex<SlabManager> dropping its Vec of slabs.
AllocatorDrop ==
    VecDrop(pools[64].slabs) \o VecDrop(pools[128].slabs) \o VecDrop(pools[256].slabs)
        \o VecDrop(pools[512].slabs) \o VecDrop(pools[1024].slabs)
        \o VecDrop(pools[2048].slabs)

\* The SlabAllocator is dropped.  Its owner can do so only while no call
\* borrows it, and nothing can be called on it afterwards.
Drop ==
    /\ fate = "run"
    /\ \A t \in Threads : pc[t] = "idle"
    /\ freed' = freed \o AllocatorDrop
    /\ used' = used \ {FrameOf(AllocatorDrop[i]) : i \in 1..Len(AllocatorDrop)}
    /\ pools' = [S \in Classes |-> ManagerNewIn]
    /\ fate' = "dropped"
    /\ UNCHANGED <<test, workload, lock, issued, pc, op>>

LifeNext == Next \/ Drop

LifeSpec == Init /\ [][LifeNext]_vars

\* ------------------------------------------------------------ scheduling
\* The runs in which both threads work on two classes side by side, or on
\* the backing allocator alone, with the scheduling the code relies on: a
\* thread that holds a guard keeps running to the end of its match arm.
\* Nothing is assumed about the threads spinning in lock(): spin::Mutex has
\* no queue and promises no fairness among them.
LockWorkloads == { {Bytes(64), Bytes(128)}, {Lay(64, 4096), Bytes(4096)} }

LockInit == Init /\ workload \in LockWorkloads

LockSpec ==
    /\ LockInit
    /\ [][Next]_vars
    /\ \A t \in Threads : WF_vars(Return(t))

\* ---------------------------------------- slab_allocator_allocate_extra
\* The test of tests.rs lines 75-104, for any class and any number of
\* allocations up to MaxIssues: one thread allocates Layout::new::<[u8; S]>()
\* from a fresh SlabAllocator, reads the class's remaining_object_count after
\* each call, then deallocates the blocks in the order it got them, reading
\* the count after each call.  unwrap() on AllocError ends the test.
ExtraInit ==
    /\ workload \in {{Bytes(S)} : S \in Classes}
    /\ test = [NoTest EXCEPT !.layout = CHOOSE l \in workload : TRUE]
    /\ pools = [S \in Classes |-> ManagerNewIn]
    /\ lock = [S \in Classes |-> NoThread]
    /\ used = {}
    /\ issued = {}
    /\ pc = [t \in Threads |-> "idle"]
    /\ op = [t \in Threads |-> NullOp]
    /\ fate = "run"
    /\ freed = <<>>

\* let allocation_k = slab_allocator.allocate(LAYOUT).unwrap(); and the
\* assert! on remaining_object_count that follows it.
TestAllocate ==
    /\ fate = "run"
    /\ test.released = 0
    /\ Len(test.allocations) < MaxIssues
    /\ LET S == AllocateArm(AllocationSize(test.layout.size, test.layout.align))
           m == pools[S]
       IN /\ S # Inner
          /\ MutexLock(S, 1)
          /\ \E b \in (IF ManagerIsEmpty(m) THEN BackingBlocks(SlabLayout) ELSE {})
                          \cup {[addr |-> AllocError, len |-> 0]} :
             \E push_ok \in BOOLEAN :
               LET r == ManagerNextObject(S, m, b.addr) IN
               IF r.status = "ok" /\ (push_ok \/ ~ManagerIsEmpty(m))
               THEN /\ push_ok
                    /\ pools' = [pools EXCEPT ![S] = r.mgr]
                    /\ used' = IF ManagerIsEmpty(m) THEN used \cup {FrameOf(b.addr)}
                               ELSE used
                    /\ test' = [test EXCEPT
                                  !.allocations = Append(@, [addr |-> r.addr, len |-> r.len]),
                                  !.seen = Append(@, ManagerRemainingObjectCount(r.mgr))]
                    /\ UNCHANGED fate
               ELSE /\ push_ok = (r.status # "ok")
                    /\ fate' = IF r.status = "ok" THEN "abort" ELSE "panic"
                    /\ UNCHANGED <<pools, used, test>>
    /\ UNCHANGED <<freed, workload, lock, issued, pc, op>>

\* slab_allocator.deallocate(allocation_k.as_non_null_ptr(), LAYOUT); and the
\* assert! that follows it.
TestDeallocate ==
    /\ fate = "run"
    /\ test.released < Len(test.allocations)
    /\ LET S == DeallocateArm(AllocationSize(test.layout.size, test.layout.align))
           r == ManagerReturnObject(S, pools[S], test.allocations[test.released + 1].addr)
       IN /\ S # Inner
          /\ MutexLock(S, 1)
          /\ IF r.found
             THEN /\ pools' = [pools EXCEPT ![S] = r.mgr]
                  /\ test' = [test EXCEPT
                                !.released = @ + 1,
                                !.seen = Append(@, ManagerRemainingObjectCount(r.mgr))]
                  /\ UNCHANGED fate
             ELSE /\ fate' = "ub"
                  /\ UNCHANGED <<pools, test>>
    /\ UNCHANGED <<freed, workload, lock, used, issued, pc, op>>

ExtraNext == TestAllocate \/ TestDeallocate

ExtraSpec == ExtraInit /\ [][ExtraNext]_vars

\* ------------------------------------------------------------ slab_allocate
\* The test of tests.rs lines 12-25, for any class and any number of calls: a
\* Slab<S> built on a block of the backing allocator, then next_object calls
\* (also on the slab with nothing left, where it returns None) and
\* return_object calls of objects the slab issued and the test still holds,
\* at most MaxReturns of them.  test.last records the last call: the bitmap
\* before it and what it returned; test.order the addresses issued so far,
\* kept as long as no object was returned.
NoCall == [call |-> "new_in", before |-> {}, some |-> FALSE, addr |-> 0, len |-> 0]

SlabInit ==
    /\ workload \in {{Bytes(S)} : S \in Classes}
    /\ test = [S |-> (CHOOSE l \in workload : TRUE).size,
               slab |-> SlabNewIn((CHOOSE l \in workload : TRUE).size, FrameBase(1)),
               held |-> {}, order |-> <<>>, returns |-> 0, last |-> NoCall]
    /\ pools = [S \in Classes |-> ManagerNewIn]
    /\ lock = [S \in Classes |-> NoThread]
    /\ used = {1}
    /\ issued = {}
    /\ pc = [t \in Threads |-> "idle"]
    /\ op = [t \in Threads |-> NullOp]
    /\ fate = "run"
    /\ freed = <<>>

\* let object = slab.next_object()
SlabTestNextObject ==
    /\ LET r == SlabNextObject(test.S, test.slab) IN
       test' = [test EXCEPT
                  !.slab = r.slab,
                  !.held = IF r.some THEN @ \cup {r.addr} ELSE @,
                  !.order = IF r.some /\ test.returns = 0 THEN Append(@, r.addr) ELSE @,
                  !.last = [call |-> "next_object", before |-> test.slab.bitmap,
                            some |-> r.some, addr |-> r.addr, len |-> r.len]]
    /\ UNCHANGED <<freed, workload, pools, lock, used, issued, pc, op, fate>>

\* slab.return_object(object.as_non_null_ptr())
SlabTestReturnObject ==
    /\ test.returns < MaxReturns
    /\ \E object \in test.held :
         test' = [test EXCEPT
                    !.slab = SlabReturnObject(test.S, test.slab, object),
                    !.held = @ \ {object},
                    !.order = <<>>,
                    !.returns = @ + 1,
                    !.last = [call |-> "return_object", before |-> test.slab.bitmap,
                              some |-> FALSE, addr |-> object, len |-> 0]]
    /\ UNCHANGED <<freed, workload, pools, lock, used, issued, pc, op, fate>>

SlabNext == SlabTestNextObject \/ SlabTestReturnObject

SlabSpec == SlabInit /\ [][SlabNext]_vars

\* ================================================================ claims
\* The byte ranges of two blocks do not meet.
Disjoint(a, b) == a.addr + a.len <= b.addr \/ b.addr + b.len <= a.addr

\* The class the Router's rule gives a request: max(next_pow2(size), alignment).
ClassOf(o) == Max(NextPowerOfTwo(o.size), o.align)

\* Thread t has just got a block from next_object or from self.inner.
Produced(t) ==
    /\ op'[t].kind = "alloc" /\ op'[t].status = "ok"
    /\ ~(op[t].kind = "alloc" /\ op[t].status = "ok")

\* No call is working on class S.
Quiescent(S) == \A t \in Threads : op[t].kind = "none" \/ ClassOf(op[t]) # S

\* The classes whose pools the callers of this run reach; the pools of the
\* other classes stay as new_in built them.
ClassesInUse == {S \in Classes : \E l \in workload : ClassOf(l) = S}

\* No page of class S's pool has a free slot.
NoFreeSlot(S) == \A i \in 1..Len(pools[S].slabs) : pools[S].slabs[i].bitmap = {}

\* ------------------------------------------------------------------- C1
\* C1: whatever the interleaving of the threads' allocate and deallocate
\* calls, a block an allocate call obtains meets no block that is live at that
\* moment (owned by a caller, on its way out of another allocate, or passed to
\* a deallocate that has not yet given it back), and the live blocks are
\* pairwise disjoint, across slots, pages, classes and delegated blocks.
C1_NoAliasing ==
    [][ /\ \A t \in Threads :
             Produced(t) => \A o \in Live : Disjoint(o, Block(op'[t]))
        /\ \A a \in Live' : \A b \in Live' : (a # b) => Disjoint(a, b) ]_vars

\* Three blocks are owned at once, two of them slots of one page that was
\* issued from, released into and issued from again, the third elsewhere.
C1_Witness ==
    \E a \in issued : \E b \in issued : \E c \in issued :
        /\ a # b /\ FrameOf(a.addr) = FrameOf(b.addr)
        /\ FrameOf(c.addr) # FrameOf(a.addr)
        /\ a.addr % PageSize # 0 /\ b.addr % PageSize # 0

\* ------------------------------------------------------------------- C2
\* C2: every block a successful allocate(size, alignment) is about to return
\* is at least size bytes long and starts at a multiple of alignment, for
\* requests served by a class and for requests delegated to the backing
\* allocator (which honours the same contract).
C2_IssueContract ==
    \A t \in Threads :
        (pc[t] = "done" /\ op[t].kind = "alloc" /\ op[t].status = "ok")
            => /\ op[t].len >= op[t].size
               /\ op[t].addr % op[t].align = 0

\* An allocate whose class comes from the alignment (16 bytes aligned to 128)
\* returns a slot that is not the first of its page.
C2_Witness ==
    \E t \in Threads :
        /\ pc[t] = "done" /\ op[t].kind = "alloc" /\ op[t].status = "ok"
        /\ op[t].align = 128 /\ op[t].size = 16
        /\ op[t].addr % PageSize # 0

\* ------------------------------------------------------------------- C3
\* C3: for every class S, whenever no call on class S is in progress, the
\* pool's remaining_object_count equals (4096/S) * (number of its pages) minus
\* the number of blocks of class S that callers own.
C3_FreeCount ==
    \A S \in Classes :
        Quiescent(S) =>
            ManagerRemainingObjectCount(pools[S])
                = (PageSize \div S) * Len(pools[S].slabs)
                    - Cardinality({o \in issued : ClassOf(o) = S})

\* A class with two pages, three blocks out and one slot free, at rest.
C3_Witness ==
    \E S \in Classes :
        /\ Quiescent(S)
        /\ Len(pools[S].slabs) = 2
        /\ Cardinality({o \in issued : ClassOf(o) = S}) = 3
        /\ ManagerRemainingObjectCount(pools[S]) = 1

\* ------------------------------------------------------------------- C4
\* C4 as claimed: every block a successful allocate(size, alignment) with
\* size <= 2048 is about to return is exactly
\* max(next_power_of_two(size), alignment) bytes long.
C4_LengthIsClassUpTo2048 ==
    \A t \in Threads :
        (pc[t] = "done" /\ op[t].kind = "alloc" /\ op[t].status = "ok"
            /\ op[t].size <= 2048)
            => op[t].len = ClassOf(op[t])

\* C4 as amended: when max(next_power_of_two(size), alignment) is one of the
\* six classes, the block a successful allocate is about to return is exactly
\* that many bytes long.
C4_LengthIsClass ==
    \A t \in Threads :
        (pc[t] = "done" /\ op[t].kind = "alloc" /\ op[t].status = "ok"
            /\ ClassOf(op[t]) \in Classes)
            => op[t].len = ClassOf(op[t])

\* allocate(40, 8) is about to return 64 bytes, allocate(16, 128) 128 bytes.
C4_Witness ==
    \E t \in Threads :
        /\ pc[t] = "done" /\ op[t].kind = "alloc" /\ op[t].status = "ok"
        /\ op[t].size \in {16, 40} /\ op[t].len = ClassOf(op[t])
        /\ op[t].len > op[t].size

\* ------------------------------------------------------------------- C5
\* C5 as claimed: an allocate that is about to return AllocError belongs to a
\* class whose pool had no free slot (a new page was needed), and asked the
\* backing allocator exactly once.
C5_FailsOnlyOnNewPage ==
    \A t \in Threads :
        (pc[t] = "done" /\ op[t].kind = "alloc" /\ op[t].status = "err")
            => /\ op[t].arm \in Classes
               /\ NoFreeSlot(op[t].arm)
               /\ op[t].asks = 1

\* C5 as amended: an allocate returns AllocError only when the one request it
\* made of the backing allocator was refused: the page its class's pool needed
\* because no page had a free slot, or the delegated request itself.  Then it
\* asked exactly once, got no block and changed no pool.  An allocate of a
\* class whose pool has a free slot succeeds without asking, and an allocate
\* that got a block from the backing allocator succeeds.
C5_FailsOnlyOnRefusal ==
    [][ \A t \in Threads :
          (op'[t].kind = "alloc" /\ pc'[t] = "done" /\ pc[t] # "done") =>
            /\ op'[t].status \in {"ok", "err"}
            /\ (op'[t].status = "err") =>
                  /\ op'[t].asks = 1
                  /\ used' = used /\ pools' = pools
                  /\ \/ /\ op'[t].arm \in Classes
                        /\ NoFreeSlot(op'[t].arm)
                        /\ op'[t].asked = [size |-> PageSize, align |-> PageSize]
                     \/ /\ ClassOf(op'[t]) \notin Classes
                        /\ op'[t].asked = [size |-> op'[t].size, align |-> op'[t].align]
            /\ (op'[t].arm \in Classes /\ ~NoFreeSlot(op'[t].arm)) =>
                  /\ op'[t].status = "ok" /\ op'[t].asks = 0 /\ used' = used
            /\ (used' # used) => op'[t].status = "ok" ]_vars

\* An allocate of a class is about to return AllocError while the pool owns a
\* page whose slots are all issued.
C5_Witness ==
    \E t \in Threads :
        /\ pc[t] = "done" /\ op[t].kind = "alloc" /\ op[t].status = "err"
        /\ op[t].arm \in Classes
        /\ Len(pools[op[t].arm].slabs) >= 1
        /\ NoFreeSlot(op[t].arm)

\* ------------------------------------------------------------------- C6
\* C6: a call whose class max(next_power_of_two(size), alignment) is not one
\* of the six classes never waits for or holds a class lock, hands the
\* backing allocator exactly the (size, alignment) it was given, and leaves
\* every pool (pages, bitmaps, count) and every lock as it was.
C6_Delegation ==
    [][ \A t \in Threads :
          (op'[t].kind # "none" /\ ClassOf(op'[t]) \notin Classes) =>
            /\ pc'[t] # "lock"
            /\ \A S \in Classes : lock'[S] # t
            /\ (op[t].kind = "none") =>
                  /\ pools' = pools /\ lock' = lock
                  /\ op'[t].asks = 1
                  /\ op'[t].asked = [size |-> op'[t].size, align |-> op'[t].align] ]_vars

\* allocate of 4096 bytes is about to return a block from the backing
\* allocator while the 2048 pool owns a page with a block out.
C6_Witness ==
    \E t \in Threads :
        /\ pc[t] = "done" /\ op[t].kind = "alloc" /\ op[t].status = "ok"
        /\ op[t].size = 4096 /\ op[t].len = 4096
        /\ Len(pools[2048].slabs) = 1
        /\ ManagerRemainingObjectCount(pools[2048]) = 1

\* ------------------------------------------------------------------- C7
\* C7 as claimed: a request with size < 64 and alignment <= 64 is served by
\* the 64-byte pool, and only requests whose class exceeds 2048 go to the
\* backing allocator.
C7_SmallRoundsUpTo64 ==
    \A t \in Threads :
        (op[t].kind = "alloc") =>
            /\ (op[t].size < 64 /\ op[t].align <= 64) => op[t].arm = 64
            /\ (op[t].arm = Inner) => ClassOf(op[t]) > 2048

\* ------------------------------------------------------------------- C8
\* C8: a step changes the pool of class B (its pages, a bitmap or its count)
\* only if it is the step of a call whose class is B; so releasing a 64-byte
\* block leaves the 128-byte pool's count as it was.
C8_ClassIsolation ==
    [][ \A B \in Classes :
          (pools'[B] # pools[B]) =>
             \E t \in Threads :
                /\ pc[t] = "lock" /\ pc'[t] = "done"
                /\ ClassOf(op[t]) = B ]_vars

\* After allocate(64, 1) and allocate(128, 1) the 64-byte block has been
\* released: its pool has all 64 slots free, the 128-byte pool still has 31
\* and its block is still out.
C8_Witness ==
    /\ ManagerRemainingObjectCount(pools[64]) = 64
    /\ ManagerRemainingObjectCount(pools[128]) = 31
    /\ \E o \in issued : o.size = 128
    /\ \A t \in Threads : pc[t] = "idle"

\* ------------------------------------------------------------------- C9
CeilDiv(n, c) == (n + c - 1) \div c

\* C9 (checked on the test of tests.rs lines 75-104, for every class S and
\* every number n of allocations): with C = 4096/S, after k allocations from
\* the empty pool and no deallocation the pool owns ceil(k/C) pages and the
\* count read is ceil(k/C)*C - k; each deallocation, in the order of
\* allocation, raises the count read by exactly one and removes no page; for
\* S = 2048 and n = 5 the counts read are 1,0,1,0,1 and then 2,3,4,5,6.
C9_CountsOfTheTest ==
    LET S == test.layout.size
        C == PageSize \div S
        n == Len(test.allocations)
        j == test.released
    IN /\ Len(test.seen) = n + j
       /\ Len(pools[S].slabs) = CeilDiv(n, C)
       /\ ManagerRemainingObjectCount(pools[S]) = CeilDiv(n, C) * C - n + j
       /\ \A k \in 1..n : test.seen[k] = CeilDiv(k, C) * C - k
       /\ \A i \in 1..j : test.seen[n + i] = (CeilDiv(n, C) * C - n) + i
       /\ (S = 2048 /\ n = 5 /\ j = 5) => test.seen = <<1, 0, 1, 0, 1, 2, 3, 4, 5, 6>>

\* The test as written: five allocations of 2048 bytes, all five released.
C9_Witness ==
    /\ test.layout.size = 2048
    /\ Len(test.allocations) = 5
    /\ test.released = 5
    /\ Len(pools[2048].slabs) = 3
    /\ fate = "run"

\* ------------------------------------------------------------------ C10
\* C10: for every page of every pool that has a free slot, next_object
\* followed by return_object of the block just issued gives back the page as
\* it was: the same bitmap and the same remaining count.
C10_SlabRoundTrip ==
    \A S \in Classes : \A i \in 1..Len(pools[S].slabs) :
        LET slab == pools[S].slabs[i]
            issue == SlabNextObject(S, slab)
            back == SlabReturnObject(S, issue.slab, issue.addr)
        IN ~SlabIsEmpty(slab) =>
              /\ issue.some
              /\ issue.slab.bitmap # slab.bitmap
              /\ back.bitmap = slab.bitmap
              /\ SlabRemainingObjectCount(back) = SlabRemainingObjectCount(slab)

\* A page whose lowest free slot is not slot 0 and lies below an issued slot.
C10_Witness ==
    \E S \in Classes : \E i \in 1..Len(pools[S].slabs) :
        LET b == pools[S].slabs[i].bitmap IN
        /\ 0 \notin b /\ 1 \in b /\ 2 \notin b


\* ------------------------------------------------------------------ C11
\* next_object on pool m of class S with the backing allocator's answer
\* `memory`, then return_object of the block it returned.
PoolRoundTrip(S, m, memory) ==
    LET issue == ManagerNextObject(S, m, memory)
    IN [status |-> issue.status,
        back |-> IF issue.status = "ok"
                 THEN ManagerReturnObject(S, issue.mgr, issue.addr)
                 ELSE [found |-> FALSE, mgr |-> m]]

\* What the backing allocator can answer to Slab::new_in in this state.
PageAnswers == {b.addr : b \in BackingBlocks(SlabLayout)} \cup {AllocError}

\* C11 as claimed: in every reachable state of every pool the callers use,
\* the pool with no free slot included, a successful next_object followed by return_object of
\* the block just issued gives back the pool as it was: the same pages with
\* the same bitmaps and the same free count.
C11_PoolRoundTripAlways ==
    \A S \in ClassesInUse : \A memory \in PageAnswers :
        LET rt == PoolRoundTrip(S, pools[S], memory)
        IN (rt.status = "ok") => (rt.back.found /\ rt.back.mgr = pools[S])

\* C11 as amended: when the pool has a free slot the round trip gives back the
\* pool as it was; when it has none, the round trip leaves the pages it had as
\* they were, followed by one new page with every slot free, and a free count
\* that is 4096/S higher than before.
C11_PoolRoundTrip ==
    [](
        \A S \in ClassesInUse : \A memory \in PageAnswers :
            LET m == pools[S]
                rt == PoolRoundTrip(S, m, memory)
            IN (rt.status = "ok") =>
                 /\ rt.back.found
                 /\ ~ManagerIsEmpty(m) => rt.back.mgr = m
                 /\ ManagerIsEmpty(m) =>
                      /\ rt.back.mgr.slabs = Append(m.slabs, SlabNewIn(S, memory))
                      /\ rt.back.mgr.remaining_object_count
                            = m.remaining_object_count + ObjectsPerPage(S) )

\* A pool whose first page is full and whose second has a free slot: the
\* round trip issues from and releases into the second page.
C11_Witness ==
    /\ \E S \in Classes :
          /\ Len(pools[S].slabs) = 2
          /\ pools[S].slabs[1].bitmap = {}
          /\ pools[S].slabs[2].bitmap # {}
          /\ PoolRoundTrip(S, pools[S], AllocError).status = "ok"


\* ------------------------------------------------------------------ C12
\* The number 2^n - 1 as a bitmap: bits 0 .. n-1 set and no other.
LowBits(n) == {i \in 0..(BitmapBits - 1) : i < n}

\* C12 (checked on slab_allocate for every class S): the fresh page has
\* exactly the low 4096/S bits set, all 64 of them for S = 64, and reports
\* 4096/S remaining; while nothing was returned, after k successful
\* next_object calls it reports 4096/S - k, so 0 after exactly 4096/S of them
\* and not before; and a next_object on the page with nothing left returns None
\* and leaves the bitmap as it was.
C12_FreshAndExhausted ==
    LET S == test.S
        n == PageSize \div S
        remaining == Cardinality(test.slab.bitmap)
    IN /\ (test.last.call = "new_in") =>
              /\ test.slab.bitmap = LowBits(n)
              /\ (S = 64) => test.slab.bitmap = 0..63
              /\ remaining = n
       /\ (test.returns = 0) =>
              /\ remaining = n - Len(test.order)
              /\ (remaining = 0) <=> (Len(test.order) = n)
       /\ (test.last.call = "next_object" /\ test.last.before = {}) =>
              /\ ~test.last.some
              /\ test.slab.bitmap = test.last.before
              /\ remaining = 0

\* The page of class 64 after 64 next_object calls and a 65th that returned
\* None.
C12_Witness ==
    /\ test.S = 64
    /\ Len(test.order) = 64
    /\ test.returns = 0
    /\ test.last.call = "next_object" /\ ~test.last.some
    /\ test.slab.bitmap = {}


\* ------------------------------------------------------------------ C13
\* C13 (checked on slab_allocate for every class S, with objects returned in
\* between): a next_object on a page that has a free slot returns an object,
\* namely the S bytes at offset i*S of the page's memory where i is the
\* lowest-indexed free slot, and clears bit i and no other; and as long as
\* nothing was returned, the k-th object issued is slot k-1.
C13_LowestFreeSlot ==
    LET S == test.S
        last == test.last
    IN /\ (last.call = "next_object" /\ last.before # {}) =>
            \E i \in last.before :
               /\ \A j \in last.before : i <= j
               /\ last.some
               /\ test.slab.bitmap = last.before \ {i}
               /\ last.addr = test.slab.memory + i * S
               /\ last.len = S
       /\ (test.returns = 0) =>
            \A k \in 1..Len(test.order) :
               test.order[k] = test.slab.memory + (k - 1) * S

\* Slots 0..4 were issued, slot 2 was returned, and the next_object after it
\* issued slot 2 again, not slot 5.
C13_Witness ==
    /\ test.last.call = "next_object" /\ test.last.some
    /\ test.returns = 1
    /\ test.last.before = (2..(PageSize \div test.S - 1)) \ {3, 4}
    /\ test.last.addr = test.slab.memory + 2 * test.S
    /\ PageSize \div test.S >= 8


\* ------------------------------------------------------------------ C14
\* Thread t is between slab_S.lock() and the drop of the guard.
InCriticalSection(t, S) == pc[t] = "done" /\ op[t].arm = S

\* C14: at no time are two threads inside the critical section of one class,
\* the thread inside it is the one lock[S] names, and a step that changes a
\* pool (its pages, a bitmap or its count) is taken by a thread that was
\* waiting for that class's lock, found it free and holds it after the step.
C14_Serialized ==
    [][ \A S \in Classes :
          /\ \A t \in Threads : \A u \in Threads :
                (InCriticalSection(t, S)' /\ InCriticalSection(u, S)') => t = u
          /\ \A t \in Threads : InCriticalSection(t, S)' => lock'[S] = t
          /\ (pools'[S] # pools[S]) =>
                /\ lock[S] = NoThread
                /\ \E t \in Threads :
                      /\ pc[t] = "lock" /\ op[t].arm = S
                      /\ lock'[S] = t /\ InCriticalSection(t, S)' ]_vars

\* One thread is inside the critical section of a class, having changed its
\* pool, while the other waits for the same lock.
C14_Witness ==
    \E S \in Classes : \E t \in Threads : \E u \in Threads :
        /\ t # u
        /\ InCriticalSection(t, S) /\ lock[S] = t
        /\ pc[u] = "lock" /\ op[u].arm = S
        /\ Len(pools[S].slabs) >= 1


\* ------------------------------------------------------------------ C15
\* The class locks thread t holds.
Held(t) == {S \in Classes : lock[S] = t}

\* Thread t spins in slab_S.lock().
Waiting(t) == pc[t] = "lock"

\* C15: no thread holds two class locks, and a thread that waits for a lock
\* holds none; a waiting thread can take its next step whenever the lock of
\* its own class is free, whoever holds the locks of the other classes;
\* and the thread it waits for, if any, is itself not waiting, so the
\* waits-for relation has no cycle.
C15_OneLockNoCycle ==
    \A t \in Threads :
        /\ Cardinality(Held(t)) <= 1
        /\ Waiting(t) => Held(t) = {}
        /\ (Waiting(t) /\ fate = "run") =>
              /\ op[t].arm \in Classes
              /\ (lock[op[t].arm] = NoThread)
                    => ENABLED (NextObject(t) \/ ReturnObject(t))
              /\ \A u \in Threads :
                    (lock[op[t].arm] = u) => (u # t /\ ~Waiting(u))

\* A thread waits for the lock of one class, which is free, while the other
\* thread holds the lock of another class.
C15_Witness ==
    \E t \in Threads : \E u \in Threads :
        /\ Waiting(t) /\ lock[op[t].arm] = NoThread
        /\ Held(u) # {} /\ op[t].arm \notin Held(u)
        /\ fate = "run"


\* ------------------------------------------------------------------ C16
\* The addresses of the blocks the pages of the pools own.
PageBlocks ==
    UNION { {pools[S].slabs[i].memory : i \in 1..Len(pools[S].slabs)} : S \in Classes }

\* How many times address a occurs in the sequence q.
Occurrences(q, a) == Cardinality({i \in 1..Len(q) : q[i] = a})

\* C16: a page's block goes back to the backing allocator only in the step
\* that drops the SlabAllocator, and in that step every block a page owns goes
\* back exactly once and no other block does.  In every other step
\* (allocate, deallocate, also one that leaves a page with all slots free, and
\* a Slab::new_in that fails) nothing is given back, every pool keeps the pages
\* it had in the order it had them, and their blocks stay handed out.
C16_PagesReleasedAtDrop ==
    [][ IF fate = "run" /\ fate' = "dropped"
        THEN /\ freed = <<>>
             /\ \A a \in PageBlocks : Occurrences(freed', a) = 1
             /\ \A i \in 1..Len(freed') : freed'[i] \in PageBlocks
             /\ \A a \in PageBlocks : FrameOf(a) \in used /\ FrameOf(a) \notin used'
        ELSE /\ freed' = freed
             /\ \A S \in Classes :
                   /\ Len(pools'[S].slabs) >= Len(pools[S].slabs)
                   /\ \A i \in 1..Len(pools[S].slabs) :
                         pools'[S].slabs[i].memory = pools[S].slabs[i].memory
             /\ \A a \in PageBlocks : FrameOf(a) \in used /\ FrameOf(a) \in used'
             /\ \A t \in Threads :
                   (op'[t].status = "err" /\ op[t].status # "err") => used' = used
      ]_vars

\* The allocator was dropped while it owned at least two pages and no caller
\* held a block: pages whose slots were all free had been kept until then.
C16_Witness ==
    /\ fate = "dropped"
    /\ issued = {}
    /\ Len(freed) >= 2


\* ------------------------------------------------------------------ C17
\* Thread t takes the step that runs slab_S.next_object().
RunsNextObject(t, S) ==
    /\ pc[t] = "lock" /\ op[t].kind = "alloc" /\ op[t].arm = S
    /\ pc'[t] = "done"

\* C17: when next_object runs on a pool, the cached count is zero exactly
\* when no page has a free slot.  If none has, then a new page is created when
\* the backing allocator supplies one: it is appended after the pages the pool
\* had, which stay as they were, and the object is its slot 0.  If one has,
\* no page is created, the pages keep their order and their blocks, the call
\* succeeds, and the object comes from the first page in creation order that
\* had a free slot, the only page whose bitmap changes.  In no case does the
\* search over the pages come back empty (the unwrap never panics).
C17_FirstFitOrNewPage ==
    [][ /\ fate' # "panic"
        /\ \A S \in Classes : \A t \in Threads :
             RunsNextObject(t, S) =>
               LET old == pools[S].slabs
                   new == pools'[S].slabs
                   withRoom == {i \in 1..Len(old) : old[i].bitmap # {}}
               IN /\ (pools[S].remaining_object_count = 0) <=> (withRoom = {})
                  /\ (Len(new) # Len(old)) => (withRoom = {})
                  /\ (withRoom = {} /\ op'[t].status = "ok") =>
                        /\ Len(new) = Len(old) + 1
                        /\ \A i \in 1..Len(old) : new[i] = old[i]
                        /\ new[Len(new)].memory = op'[t].addr
                        /\ 0 \notin new[Len(new)].bitmap
                  /\ (withRoom = {} /\ op'[t].status # "ok") => new = old
                  /\ (withRoom # {}) =>
                        /\ op'[t].status = "ok"
                        /\ Len(new) = Len(old)
                        /\ \A i \in 1..Len(old) : new[i].memory = old[i].memory
                        /\ \E i \in withRoom :
                              /\ \A j \in withRoom : i <= j
                              /\ old[i].memory <= op'[t].addr
                              /\ op'[t].addr < old[i].memory + PageSize
                              /\ new[i].bitmap # old[i].bitmap
                              /\ \A j \in 1..Len(old) : (j # i) => new[j] = old[j] ]_vars

\* A pool of two pages that both had a free slot has just issued from the
\* first of them.
C17_Witness ==
    \E t \in Threads : \E S \in Classes :
        /\ pc[t] = "done" /\ op[t].kind = "alloc" /\ op[t].status = "ok" /\ op[t].arm = S
        /\ Len(pools[S].slabs) = 2
        /\ pools[S].slabs[1].memory <= op[t].addr
        /\ op[t].addr < pools[S].slabs[1].memory + PageSize
        /\ pools[S].slabs[2].bitmap # {}


\* ------------------------------------------------------------------ C18
RECURSIVE SumOfFree(_)
\* The sum of popcount(bitmap) over the pages of a pool.
SumOfFree(slabs) ==
    IF slabs = <<>> THEN 0
    ELSE Cardinality(Head(slabs).bitmap) + SumOfFree(Tail(slabs))

\* Slot i of a page of class S is issued: a caller owns the block at its
\* address, or has passed it to a deallocate that has not yet run
\* return_object.
SlotIssued(S, slab, i) == \E o \in Live : o.addr = slab.memory + i * S /\ ClassOf(o) = S

\* C18: for every class S the callers use, whenever the lock of S is not
\* held, the cached free count of its pool is the sum of the popcounts of its pages' bitmaps, and in each
\* page bit i is set exactly when slot i is not issued; no bit at or above
\* 4096/S is ever set, whoever holds the lock.
C18_CountAndBitmaps ==
    [](
        \A S \in ClassesInUse :
            /\ \A k \in 1..Len(pools[S].slabs) :
                  pools[S].slabs[k].bitmap \subseteq 0..(PageSize \div S - 1)
            /\ (lock[S] = NoThread) =>
                  /\ pools[S].remaining_object_count = SumOfFree(pools[S].slabs)
                  /\ \A k \in 1..Len(pools[S].slabs) :
                        \A i \in 0..(PageSize \div S - 1) :
                           (i \in pools[S].slabs[k].bitmap)
                              <=> ~SlotIssued(S, pools[S].slabs[k], i) )

\* The lock is free on a pool of two pages: slot 0 of the first was released
\* and is free below the issued slot 1, and slot 0 of the second is issued.
C18_Witness ==
    \E S \in Classes :
        /\ lock[S] = NoThread
        /\ Len(pools[S].slabs) = 2
        /\ 0 \in pools[S].slabs[1].bitmap /\ 1 \notin pools[S].slabs[1].bitmap
        /\ 0 \notin pools[S].slabs[2].bitmap
        /\ pools[S].remaining_object_count = 2


\* ------------------------------------------------------------------ C19
\* Thread t returns from an allocate of class S that got AllocError.
ReturnsError(t, S) ==
    /\ pc[t] = "done" /\ op[t].kind = "alloc" /\ op[t].arm = S /\ op[t].status = "err"
    /\ pc'[t] = "idle"

\* C19: a next_object of class S that the backing allocator refuses the page
\* leaves every pool (page lists, bitmaps, counts), the frames handed out and
\* the callers' blocks as they were; when the failed allocate returns it
\* changes none of them either and the lock of S is free.  A next_object on
\* the class to which the backing allocator does supply the page succeeds,
\* with the page appended and the object taken from it.
C19_FailureLeavesPool ==
    [][ \A S \in Classes : \A t \in Threads :
          /\ (RunsNextObject(t, S) /\ op'[t].status = "err") =>
                /\ pools' = pools /\ used' = used /\ issued' = issued
                /\ lock[S] = NoThread /\ lock'[S] = t
          /\ ReturnsError(t, S) =>
                /\ pools' = pools /\ used' = used /\ issued' = issued
                /\ lock[S] = t /\ lock'[S] = NoThread
          /\ (RunsNextObject(t, S) /\ used' # used) =>
                /\ op'[t].status = "ok"
                /\ Len(pools'[S].slabs) = Len(pools[S].slabs) + 1
                /\ pools'[S].slabs[Len(pools'[S].slabs)].memory = op'[t].addr ]_vars

\* An allocate of class S has failed on a pool whose only page is full, both
\* of its slots owned by callers, and still holds the lock, although the
\* backing allocator has a block it could have given.
C19_Witness ==
    \E S \in Classes : \E t \in Threads :
        /\ pc[t] = "done" /\ op[t].kind = "alloc" /\ op[t].arm = S /\ op[t].status = "err"
        /\ lock[S] = t
        /\ pools[S] = [slabs |-> <<[bitmap |-> {}, memory |-> FrameBase(1)]>>,
                       remaining_object_count |-> 0]
        /\ Cardinality({o \in issued : ClassOf(o) = S}) = 2
        /\ Frames \ used # {}


\* ------------------------------------------------------------------ C20
\* A call is in progress: some thread is inside allocate or deallocate.
Pending == \E t \in Threads : pc[t] # "idle"

\* C20: a thread that is in no call holds no lock, and the step in which a
\* call returns leaves its thread with no lock, after a success and after
\* AllocError alike; while the process runs and a call is in progress, some
\* step of a thread inside a call is possible; and, the holder of a lock
\* being scheduled, a thread that holds a lock holds none later, unless the
\* process has ended.
C20_LocksAreReleased ==
    /\ [](\A t \in Threads : (pc[t] = "idle") => (\A S \in Classes : lock[S] # t))
    /\ []((Pending /\ fate = "run") =>
             ENABLED (\E t \in Threads : NextObject(t) \/ ReturnObject(t) \/ Return(t)))
    /\ [][ \A t \in Threads :
             (pc[t] = "done" /\ pc'[t] = "idle") =>
                 \A S \in Classes : lock'[S] # t ]_vars
    /\ \A t \in Threads :
          (Held(t) # {}) ~> (Held(t) = {} \/ fate # "run")

\* A thread holds the lock of a class after next_object failed, while the
\* other thread waits for the same lock: the call in progress can only go on
\* once the failed call has dropped its guard.
C20_Witness ==
    \E S \in Classes : \E t \in Threads : \E u \in Threads :
        /\ lock[S] = t /\ pc[t] = "done" /\ op[t].status = "err"
        /\ pc[u] = "lock" /\ op[u].arm = S
        /\ fate = "run"

====
